---- MODULE Spec2Model ----
(***************************************************************************)
(* Model of the k6 test-suite orchestrator (src/src/index.js): the batch   *)
(* loop runTestSuites, the suite life cycle runSuite with its setup, test  *)
(* and teardown phases, and the reporting sink the orchestrator drives.    *)
(*                                                                         *)
(* A run is one call of runTestSuites(data).  The inputs (data.logger,     *)
(* data.enabledSuites, the kind of sink) are drawn in Init; what each      *)
(* invoked procedure does (returns, or throws some value) is drawn when    *)
(* the procedure settles.  `calls` records, in order, every sink call and  *)
(* every procedure invocation the orchestrator makes.                      *)
(*                                                                         *)
(* The decorators of src/src/decorators.js are modelled apart, as steps    *)
(* that decorate one class (SpecDecorators); SpecLive is the orchestrator  *)
(* with its call chain always resuming, for the progress properties.       *)
(***************************************************************************)
EXTENDS Integers, Sequences, FiniteSets, TLC

VARIABLES
    logger,         \* data.logger is present (truthy)
    sink,           \* behaviour of data.logger: "contract" or "client"
    enabledSuites,  \* data.enabledSuites
    pc,             \* position of the single async call chain
    idx,            \* position of the for-of loop of runTestSuites (1-based)
    suiteId,        \* runSuite: const suiteId (0 models null)
    suiteError,     \* runSuite: let suiteError
    setupSuccess,   \* runSuite: let setupSuccess
    testIdx,        \* runTests: position of the loop over testMethods
    hasFailedTests, \* runTests: let hasFailedTests
    firstError,     \* runTests: let firstError
    testId,         \* runTests: const testId of the current iteration
    running,        \* procedures invoked and not yet settled
    nextId,         \* next identifier the sink hands out
    calls,          \* history: sink calls and procedure invocations
    results,        \* history: how each runSuite invocation ended
    outcome,        \* of runTestSuites: "running", "returned" or "threw"
    thrown,         \* the value runTestSuites threw (when outcome = "threw")
    target,         \* decorators: the class being decorated
    applied,        \* history: the decorator applications made on target
    reporterConfig, \* createReporter: const config
    launchId,       \* createReporter: let launchId ("" models null)
    client,         \* createReporter: let client
    requests,       \* history: the HTTP requests sent to the backend
    opsLog          \* history: the reporter and client operations called

vars == <<logger, sink, enabledSuites, pc, idx, suiteId, suiteError,
          setupSuccess, testIdx, hasFailedTests, firstError, testId,
          running, nextId, calls, results, outcome, thrown, target, applied,
          reporterConfig, launchId, client, requests, opsLog>>

-----------------------------------------------------------------------------
(* Bounds *)

\* longest data.enabledSuites drawn in Init
MaxSel == 2

\* most decorator applications made on one class
MaxDecorations == 3

\* longest data.enabledSuites drawn for the runs checked for progress
MaxSelLive == 1

\* most operations called on one reporter and its client
MaxOps == 3

-----------------------------------------------------------------------------
(* JavaScript values that can be thrown or stored in an error variable *)

Val(k, b) == [kind |-> k, by |-> b]

\* the JS value null: initial value of suiteError / firstError, and a value
\* a procedure may throw (throw null, Promise.reject() behaves alike)
NullV == Val("Null", "")

\* a falsy value that has properties (0, "", false, NaN)
ZeroV == Val("Zero", "")

\* an Error object created by procedure m
ErrorV(m) == Val("Error", m)

\* the TypeError raised by reading `.message` of null / undefined, while
\* handling what procedure m threw
TypeErrorV(m) == Val("TypeError", m)

\* new Error('Reporter client not initialized')
ConfigErrorV == Val("ConfigError", "")

\* the Error validate.notEmpty throws inside the bundled client
SinkErrorV == Val("SinkError", "")

\* JS truthiness of a value held in an error variable: `if (suiteError)`,
\* `if (!suiteError)`, `hasFailedTests && firstError`
Truthy(v) == v.kind \notin {"Null", "Zero"}

\* `error.message` evaluates without raising iff error is not null/undefined
CanReadMessage(v) == v.kind # "Null"

\* what a procedure may do when invoked
Outcomes == {"ok", "error", "zero", "null"}

\* the value procedure m throws under outcome o
ThrownBy(m, o) ==
    CASE o = "error" -> ErrorV(m)
      [] o = "zero"  -> ZeroV
      [] o = "null"  -> NullV

-----------------------------------------------------------------------------
(* Suites: the own property names of the suite's prototype, in declaration *)
(* order, each with the flags the decorators put on the function; the name *)
(* ("" when there is no @Suite metadata) and the features of the metadata. *)

\* a method: isSetup / isTeardown flags, testMetadata ("" models undefined,
\* otherwise the metadata's name)
Method(n, s, t, m) ==
    [name |-> n, isSetup |-> s, isTeardown |-> t, testMetadata |-> m]

\* a suite with both hooks, a test and a helper without metadata
SuiteFull ==
    [suiteMetadata |-> "Full",
     features |-> << "smoke" >>,
     methods |-> << Method("before", TRUE, FALSE, ""),
                    Method("t1", FALSE, FALSE, "first"),
                    Method("helper", FALSE, FALSE, ""),
                    Method("after", FALSE, TRUE, "") >>]

\* a suite of three tests without hooks and without @Suite metadata
SuitePlain ==
    [suiteMetadata |-> "",
     features |-> << >>,
     methods |-> << Method("p1", FALSE, FALSE, "one"),
                    Method("p2", FALSE, FALSE, "two"),
                    Method("p3", FALSE, FALSE, "three") >>]

\* a suite whose hooks are declared twice and whose first teardown also
\* carries test metadata
SuiteOdd ==
    [suiteMetadata |-> "Odd",
     features |-> << >>,
     methods |-> << Method("s1", TRUE, FALSE, ""),
                    Method("s2", TRUE, FALSE, ""),
                    Method("d1", FALSE, TRUE, "teardownAsTest"),
                    Method("d2", FALSE, TRUE, "") >>]

\* data.testSuites
testSuites == [n \in {"A", "B", "C"} |->
                 CASE n = "A" -> SuiteFull
                   [] n = "B" -> SuitePlain
                   [] n = "C" -> SuiteOdd]

\* names a caller may list in data.enabledSuites; "X" has no suite
SelectableNames == (DOMAIN testSuites) \cup {"X"}

\* all sequences over S of length at most n
RECURSIVE SeqsUpTo(_, _)
SeqsUpTo(S, n) ==
    IF n = 0 THEN {<<>>}
    ELSE LET shorter == SeqsUpTo(S, n - 1)
         IN  shorter \cup {Append(s, x) : s \in shorter, x \in S}

-----------------------------------------------------------------------------
(* Discovery of hooks and tests on a suite                                 *)

\* mutant: the last setup-flagged method is taken
setupMethodLast(suite) ==
    LET hits == {i \in 1..Len(suite.methods) : suite.methods[i].isSetup}
    IN  IF hits = {} THEN 0 ELSE CHOOSE i \in hits : \A j \in hits : i >= j

\* Object.getOwnPropertyNames(proto).find(m => testSuite[m].isSetup):
\* position of the first setup-flagged method, 0 when there is none
setupMethod(suite) ==
    LET hits == {i \in 1..Len(suite.methods) : suite.methods[i].isSetup}
    IN  IF hits = {} THEN 0 ELSE CHOOSE i \in hits : \A j \in hits : i <= j

\* ....find(m => testSuite[m].isTeardown)
teardownMethod(suite) ==
    LET hits == {i \in 1..Len(suite.methods) : suite.methods[i].isTeardown}
    IN  IF hits = {} THEN 0 ELSE CHOOSE i \in hits : \A j \in hits : i <= j

\* ....filter(m => typeof fn === 'function' && fn.testMetadata)
testMethods(suite) ==
    SelectSeq(suite.methods, LAMBDA m : m.testMetadata # "")

\* suiteMetadata.name: the @Suite metadata, or the default built from the
\* name the suite was selected by
suiteMetadataName(suite, key) ==
    IF suite.suiteMetadata # "" THEN suite.suiteMetadata ELSE key

\* suiteMetadata.features: the default metadata has no features
suiteMetadataFeatures(suite) ==
    IF suite.suiteMetadata # "" THEN suite.features ELSE << >>

-----------------------------------------------------------------------------
(* The history of calls.  run: which element of enabledSuites the call     *)
(* belongs to; id: the identifier passed (or, for start calls, returned);  *)
(* parent: the parent identifier of startTest; name: the suite, test or    *)
(* method name; arg: status, message or outcome; role: for procedure       *)
(* events, the role the procedure is invoked in.                           *)

Ev(op, id, parent, name, arg) ==
    [op |-> op, run |-> idx, role |-> "", id |-> id, parent |-> parent,
     name |-> name, arg |-> arg, value |-> ""]

\* the value a procedure of the suites above returns when it returns: the
\* setup of SuiteFull returns a context, every other procedure nothing
\* ("" models undefined)
Returns(m) == IF m = "before" THEN "ctx" ELSE ""

\* mutant: the value the setup procedure of this suite invocation returned
\* is handed on to the procedures invoked after it
SetupResultKept ==
    LET ret == {i \in DOMAIN calls : /\ calls[i].run = idx
                                     /\ calls[i].op = "settle"
                                     /\ calls[i].role = "setup"}
    IN  IF ret = {} THEN "" ELSE calls[CHOOSE i \in ret : TRUE].value

\* what a test or teardown procedure is handed besides the configuration:
\* `await Promise.resolve(testSuite[setupMethod](config))` drops the value
\* setup returned, and `testMethod.call(testSuite, { ...config, testId })`
\* and `testSuite[teardownMethod](config)` pass the configuration alone
SetupResultPassed == ""

\* a procedure event: op "call" when the orchestrator invokes method m in
\* the given role with config.testId = id, op "settle" when the invocation
\* completes with outcome arg.  value: for "settle", what the procedure
\* returned; for "call", what it was handed besides the configuration
Proc(op, role, id, m, arg) ==
    [op |-> op, run |-> idx, role |-> role, id |-> id, parent |-> 0,
     name |-> m, arg |-> arg,
     value |-> CASE op = "settle" /\ arg = "ok" -> Returns(m)
                 [] op = "call" /\ role # "setup" -> SetupResultPassed
                 [] OTHER -> ""]

\* mutant: the loop walks the keys of the suite mapping that are selected,
\* in the mapping's order, instead of the selection
suiteNameFromMapping ==
    LET keys == SelectSeq(<<"A", "B", "C">>,
                          LAMBDA n : \E r \in DOMAIN enabledSuites :
                                        enabledSuites[r] = n)
    IN  IF idx <= Len(keys) THEN keys[idx] ELSE "X"

\* the suite of the current loop iteration
suiteName == enabledSuites[idx]
testSuite == testSuites[suiteName]

\* identifiers a start call may return: the contract sink always returns a
\* fresh identifier; the bundled client returns null (0) when publishing is
\* disabled or the request fails
StartIds == IF sink = "client" THEN {nextId, 0} ELSE {nextId}

-----------------------------------------------------------------------------
(* Initial states *)

InitLocals ==
    /\ pc = "start"
    /\ idx = 1
    /\ suiteId = 0
    /\ suiteError = NullV
    /\ setupSuccess = TRUE
    /\ testIdx = 1
    /\ hasFailedTests = FALSE
    /\ firstError = NullV
    /\ testId = 0
    /\ running = {}
    /\ nextId = 1
    /\ calls = <<>>
    /\ results = <<>>
    /\ outcome = "running"
    /\ thrown = NullV

InitInputs ==
    /\ logger \in BOOLEAN
    /\ enabledSuites \in SeqsUpTo(SelectableNames, MaxSel)

\* a class as declared, before any decorator has been applied to it
ClassBare ==
    [suiteMetadata |-> "",
     features |-> << >>,
     methods |-> << Method("a", FALSE, FALSE, ""),
                    Method("b", FALSE, FALSE, "") >>]

InitRegistry ==
    /\ target = ClassBare
    /\ applied = <<>>

\* the options a reporter is created with: `valid` when endpoint, project
\* and token are all present, publishResult as given
ReporterConfigs == [valid : BOOLEAN, publishResult : BOOLEAN]

\* no client: `let client = null`
NoClient == [made |-> FALSE, launchId |-> ""]

\* createReporter(options): the state of a reporter made with one of the
\* given options
InitReporter(configs) ==
    /\ reporterConfig \in configs
    /\ launchId = ""
    /\ client = NoClient
    /\ requests = <<>>
    /\ opsLog = <<>>

\* the reporter the orchestrator runs use
ReporterIdle == InitReporter({[valid |-> TRUE, publishResult |-> TRUE]})

Init ==
    /\ InitInputs
    /\ sink = "contract"
    /\ InitLocals
    /\ InitRegistry
    /\ ReporterIdle

InitClient ==
    /\ InitInputs
    /\ sink = "client"
    /\ InitLocals
    /\ InitRegistry
    /\ ReporterIdle

reporterVars == <<reporterConfig, launchId, client, requests, opsLog>>
inputs == <<logger, sink, enabledSuites, target, applied, reporterVars>>
\* the end of a runSuite invocation: returned, or threw `value`
Result(threw, value) == [run |-> idx, threw |-> threw, value |-> value]
suiteLocals == <<suiteId, suiteError, setupSuccess>>
testLocals == <<testIdx, hasFailedTests, firstError, testId>>

-----------------------------------------------------------------------------
(* runTestSuites *)

\* mutant: the logger check is left out
LoggerCheckOmitted == FALSE

\* lines 13-15: the logger check
LoggerMissing == ~logger

\* entry of runTestSuites: destructure data, check the logger
RunTestSuites ==
    /\ pc = "start"
    /\ IF LoggerMissing
         THEN /\ outcome' = "threw"
              /\ thrown' = ConfigErrorV
              /\ pc' = "done"
         ELSE /\ pc' = "loop"
              /\ UNCHANGED <<outcome, thrown>>
    /\ UNCHANGED <<inputs, results, idx, suiteLocals, testLocals, running, nextId, calls>>

\* the for-of loop is exhausted: runTestSuites returns
LoopEnd ==
    /\ pc = "loop"
    /\ idx > Len(enabledSuites)
    /\ pc' = "done"
    /\ outcome' = "returned"
    /\ UNCHANGED <<inputs, results, idx, suiteLocals, testLocals, running, nextId,
                   calls, thrown>>

\* line 19-20: testSuites[suiteName] is falsy
NoSuite(n) == n \notin DOMAIN testSuites

\* mutant: a name without a suite ends the loop (`break` for `continue`)
SkipSuiteBreaks ==
    /\ pc = "loop"
    /\ idx <= Len(enabledSuites)
    /\ NoSuite(suiteName)
    /\ pc' = "done"
    /\ outcome' = "returned"
    /\ UNCHANGED <<inputs, results, idx, suiteLocals, testLocals, running,
                   nextId, calls, thrown>>

\* `if (!testSuite) continue`
SkipSuite ==
    /\ pc = "loop"
    /\ idx <= Len(enabledSuites)
    /\ NoSuite(suiteName)
    /\ idx' = idx + 1
    /\ UNCHANGED <<inputs, results, pc, suiteLocals, testLocals, running, nextId,
                   calls, outcome, thrown>>

-----------------------------------------------------------------------------
(* runSuite *)

\* lines 34-55: resolve metadata, startSuite, the info lines (the features
\* line only when there are features), the locals.
\* A null suiteId makes the bundled client's info() throw, which ends
\* runSuite and, through the await of line 22, runTestSuites.
StartSuite ==
    /\ pc = "loop"
    /\ idx <= Len(enabledSuites)
    /\ ~NoSuite(suiteName)
    /\ \E id \in StartIds :
         LET started == Ev("startSuite", id, 0,
                           suiteMetadataName(testSuite, suiteName), suiteName)
         IN  /\ suiteId' = id
             /\ nextId' = IF id = 0 THEN nextId ELSE nextId + 1
             /\ IF id = 0
                  THEN /\ calls' = calls \o << started,
                                      Ev("info", id, 0, "", "Starting suite") >>
                       /\ results' = Append(results, Result(TRUE, SinkErrorV))
                       /\ outcome' = "threw"
                       /\ thrown' = SinkErrorV
                       /\ pc' = "done"
                       /\ UNCHANGED <<suiteError, setupSuccess>>
                  ELSE /\ calls' = calls \o << started,
                                      Ev("info", id, 0, "", "Starting suite"),
                                      Ev("info", id, 0, "", "Suite description") >> \o
                                   (IF Len(suiteMetadataFeatures(testSuite)) > 0
                                      THEN << Ev("info", id, 0, "", "Suite features") >>
                                      ELSE << >>)
                       /\ suiteError' = NullV
                       /\ setupSuccess' = TRUE
                       /\ pc' = "setup"
                       /\ UNCHANGED <<results, outcome, thrown>>
    /\ UNCHANGED <<inputs, idx, testLocals, running>>

\* mutant: the test loop writes its testId into the configuration object
\* it was given, which the hooks are given too
hookConfigTestIdShared == IF testId # 0 THEN testId ELSE suiteId

\* config.testId as runSuiteSetup and runSuiteTeardown see it: runSuite
\* hands each a fresh `{ ...config, testId: suiteId }` (lines 58 and 77)
hookConfigTestId == suiteId

\* mutant: the parent is the identifier left by the previous test
testsConfigTestIdOverwritten == IF testId # 0 THEN testId ELSE suiteId

\* config.testId as runTests sees it, passed as parent to startTest (line
\* 147): runSuite hands it `{ ...config, testId: suiteId }` (line 68), and
\* the loop builds a fresh `{ ...config, testId }` for each test (line 154)
testsConfigTestId == suiteId

\* `if (!suiteError) suiteError = error`, `if (!firstError) firstError = error`
KeepFirst(cur, e) == IF ~Truthy(cur) THEN e ELSE cur

\* what the catch block of runSuiteSetup / runSuiteTeardown throws on to
\* runSuite when method m threw e: building the message reads e.message,
\* which raises a TypeError for null / undefined; otherwise `throw error`
Rethrown(m, e) == IF CanReadMessage(e) THEN e ELSE TypeErrorV(m)

\* mutant: the setup procedure is invoked and its result is not awaited
InvokeSetupNotAwaited ==
    /\ pc = "setup"
    /\ LET i == setupMethod(testSuite)
       IN  IF i = 0
             THEN UNCHANGED <<running, calls>>
             ELSE LET m == testSuite.methods[i].name
                  IN  /\ calls' = calls \o
                           << Ev("info", suiteId, 0, "", "Starting suite setup"),
                              Proc("call", "setup", suiteId, m, ""),
                              Ev("success", suiteId, 0, "", "Suite setup completed") >>
                      /\ running' = running \cup {m}
    /\ pc' = "tests"
    /\ UNCHANGED <<inputs, results, idx, suiteLocals, testLocals, nextId, outcome, thrown>>

\* runSuiteSetup, lines 104-110: find the setup method; without one the
\* phase is over, otherwise log and invoke it and await the result
InvokeSetup ==
    /\ pc = "setup"
    /\ LET i == setupMethod(testSuite)
       IN  IF i = 0
             THEN /\ pc' = "tests"
                  /\ UNCHANGED <<running, calls>>
             ELSE LET m == testSuite.methods[i].name
                  IN  /\ calls' = calls \o
                           << Ev("info", hookConfigTestId, 0, "", "Starting suite setup"),
                              Proc("call", "setup", hookConfigTestId, m, "") >>
                      /\ running' = running \cup {m}
                      /\ pc' = "setupAwait"
    /\ UNCHANGED <<inputs, results, idx, suiteLocals, testLocals, nextId, outcome, thrown>>

\* the awaited setup settles: lines 111-116 and the catch of lines 59-63
SettleSetup ==
    /\ pc = "setupAwait"
    /\ \E o \in Outcomes :
         LET m == testSuite.methods[setupMethod(testSuite)].name
             settled == Proc("settle", "setup", hookConfigTestId, m, o)
         IN  /\ running' = running \ {m}
             /\ IF o = "ok"
                  THEN /\ calls' = calls \o
                            << settled,
                               Ev("success", hookConfigTestId, 0, "", "Suite setup completed") >>
                       /\ UNCHANGED <<suiteError, setupSuccess>>
                  ELSE LET e == ThrownBy(m, o)
                       IN  /\ calls' = calls \o << settled >> \o
                                (IF CanReadMessage(e)
                                   THEN << Ev("error", hookConfigTestId, 0, "", "Suite setup failed") >>
                                   ELSE << >>) \o
                                << Ev("error", suiteId, 0, "", "Suite setup failed") >>
                           /\ setupSuccess' = FALSE
                           /\ suiteError' = Rethrown(m, e)
             /\ pc' = "tests"
    /\ UNCHANGED <<inputs, results, idx, suiteId, testLocals, nextId, outcome, thrown>>

\* mutant: the test phase is entered whatever setup did
TestsAlwaysAllowed == TRUE

\* line 66: `if (setupSuccess)`
TestsAllowed == setupSuccess

\* lines 65-68 and 127-134: enter the test phase, or skip it
BeginTests ==
    /\ pc = "tests"
    /\ IF TestsAllowed
         THEN /\ testIdx' = 1
              /\ hasFailedTests' = FALSE
              /\ firstError' = NullV
              /\ pc' = "testLoop"
         ELSE /\ pc' = "teardown"
              /\ UNCHANGED <<testIdx, hasFailedTests, firstError>>
    /\ UNCHANGED <<inputs, results, idx, suiteLocals, testId, running, nextId, calls,
                   outcome, thrown>>

\* lines 137-154: startTest, the info line, the invocation.  A null testId
\* makes the bundled client's info() throw inside the try and its error()
\* throw inside the catch, which ends runTests (catch of lines 69-72).
StartTest ==
    /\ pc = "testLoop"
    /\ testIdx <= Len(testMethods(testSuite))
    /\ \E id \in StartIds :
         LET m == testMethods(testSuite)[testIdx]
             started == Ev("startTest", id, testsConfigTestId, m.testMetadata, m.name)
         IN  /\ testId' = id
             /\ nextId' = IF id = 0 THEN nextId ELSE nextId + 1
             /\ IF id = 0
                  THEN /\ calls' = calls \o
                            << started,
                               Ev("info", id, 0, "", "Starting test"),
                               Ev("error", id, 0, "", "Test failed"),
                               Ev("error", suiteId, 0, "", "Tests execution failed") >>
                       /\ hasFailedTests' = TRUE
                       /\ firstError' = KeepFirst(firstError, SinkErrorV)
                       /\ suiteError' = KeepFirst(suiteError, SinkErrorV)
                       /\ pc' = "teardown"
                       /\ UNCHANGED running
                  ELSE /\ calls' = calls \o
                            << started,
                               Ev("info", id, 0, "", "Starting test"),
                               Proc("call", "test", id, m.name, "") >>
                       /\ running' = running \cup {m.name}
                       /\ pc' = "testAwait"
                       /\ UNCHANGED <<hasFailedTests, firstError, suiteError>>
    /\ UNCHANGED <<inputs, results, idx, suiteId, setupSuccess, testIdx, outcome, thrown>>

\* the test settles: lines 156-170.  Reading error.message of null raises
\* inside the catch block and ends runTests (catch of lines 69-72).
SettleTest ==
    /\ pc = "testAwait"
    /\ \E o \in Outcomes :
         LET m == testMethods(testSuite)[testIdx].name
             settled == Proc("settle", "test", testId, m, o)
         IN  /\ running' = running \ {m}
             /\ IF o = "ok"
                  THEN /\ calls' = calls \o
                            << settled,
                               Ev("success", testId, 0, "", "Test completed"),
                               Ev("finishTest", testId, 0, "", "passed") >>
                       /\ testIdx' = testIdx + 1
                       /\ pc' = "testLoop"
                       /\ UNCHANGED <<hasFailedTests, firstError, suiteError>>
                  ELSE LET e == ThrownBy(m, o)
                       IN  /\ hasFailedTests' = TRUE
                           /\ firstError' = KeepFirst(firstError, e)
                           /\ IF CanReadMessage(e)
                                THEN /\ calls' = calls \o
                                          << settled,
                                             Ev("error", testId, 0, "", "Test failed"),
                                             Ev("finishTest", testId, 0, "", "failed") >>
                                     /\ testIdx' = testIdx + 1
                                     /\ pc' = "testLoop"
                                     /\ UNCHANGED suiteError
                                ELSE /\ calls' = calls \o
                                          << settled,
                                             Ev("error", suiteId, 0, "", "Tests execution failed") >>
                                     /\ suiteError' = KeepFirst(suiteError, TypeErrorV(m))
                                     /\ pc' = "teardown"
                                     /\ UNCHANGED testIdx
    /\ UNCHANGED <<inputs, results, idx, suiteId, setupSuccess, testId, nextId, outcome, thrown>>

\* lines 173-175 and the catch of lines 69-72: the loop is over
EndTests ==
    /\ pc = "testLoop"
    /\ testIdx > Len(testMethods(testSuite))
    /\ IF hasFailedTests /\ Truthy(firstError)
         THEN /\ suiteError' = KeepFirst(suiteError, firstError)
              /\ calls' = calls \o
                   << Ev("error", suiteId, 0, "", "Tests execution failed") >>
         ELSE UNCHANGED <<suiteError, calls>>
    /\ pc' = "teardown"
    /\ UNCHANGED <<inputs, results, idx, suiteId, setupSuccess, testLocals, running,
                   nextId, outcome, thrown>>

\* runSuiteTeardown, lines 185-191: find the teardown method; without one
\* the phase is over, otherwise log and invoke it and await the result
runSuiteTeardown ==
    /\ pc = "teardown"
    /\ LET i == teardownMethod(testSuite)
       IN  IF i = 0
             THEN /\ pc' = "finish"
                  /\ UNCHANGED <<running, calls>>
             ELSE LET m == testSuite.methods[i].name
                  IN  /\ calls' = calls \o
                           << Ev("info", hookConfigTestId, 0, "", "Starting suite teardown"),
                              Proc("call", "teardown", hookConfigTestId, m, "") >>
                      /\ running' = running \cup {m}
                      /\ pc' = "teardownAwait"
    /\ UNCHANGED <<inputs, results, idx, suiteLocals, testLocals, nextId, outcome, thrown>>

\* mutant: teardown is attempted only after a successful setup
InvokeTeardownAfterSetupOnly ==
    IF setupSuccess
      THEN runSuiteTeardown
      ELSE /\ pc = "teardown"
           /\ pc' = "finish"
           /\ UNCHANGED <<inputs, results, idx, suiteLocals, testLocals,
                          running, nextId, calls, outcome, thrown>>

\* lines 75-77: runSuite always calls runSuiteTeardown
InvokeTeardown == runSuiteTeardown

\* the awaited teardown settles: lines 192-197 and the catch of lines 78-81
SettleTeardown ==
    /\ pc = "teardownAwait"
    /\ \E o \in Outcomes :
         LET m == testSuite.methods[teardownMethod(testSuite)].name
             settled == Proc("settle", "teardown", hookConfigTestId, m, o)
         IN  /\ running' = running \ {m}
             /\ IF o = "ok"
                  THEN /\ calls' = calls \o
                            << settled,
                               Ev("success", hookConfigTestId, 0, "", "Suite teardown completed") >>
                       /\ UNCHANGED suiteError
                  ELSE LET e == ThrownBy(m, o)
                       IN  /\ calls' = calls \o << settled >> \o
                                (IF CanReadMessage(e)
                                   THEN << Ev("error", hookConfigTestId, 0, "", "Suite teardown failed") >>
                                   ELSE << >>) \o
                                << Ev("error", suiteId, 0, "", "Suite teardown failed") >>
                           /\ suiteError' = KeepFirst(suiteError, Rethrown(m, e))
             /\ pc' = "finish"
    /\ UNCHANGED <<inputs, results, idx, suiteId, setupSuccess, testLocals, nextId,
                   outcome, thrown>>

\* line 83 and line 92: `if (suiteError)`
SuiteFailed == Truthy(suiteError)

\* mutant: the batch loop catches the suite's error and goes on with the
\* next selected name
FinishSuiteContinuing ==
    /\ pc = "finish"
    /\ results' = Append(results, Result(SuiteFailed, suiteError))
    /\ calls' = calls \o
         (IF SuiteFailed
            THEN << Ev("error", suiteId, 0, "", "Suite failed"),
                    Ev("finishSuite", suiteId, 0, "", "failed") >>
            ELSE << Ev("info", suiteId, 0, "", "Suite completed successfully"),
                    Ev("finishSuite", suiteId, 0, "", "default") >>)
    /\ idx' = idx + 1
    /\ pc' = "loop"
    /\ UNCHANGED <<inputs, suiteLocals, testLocals, running, nextId,
                   outcome, thrown>>

\* lines 83-94: report the suite's status; rethrow the suite error, which
\* the await of line 22 lets escape from runTestSuites, or go on with the
\* next selected name
FinishSuite ==
    /\ pc = "finish"
    /\ results' = Append(results, Result(SuiteFailed, suiteError))
    /\ IF SuiteFailed
         THEN /\ calls' = calls \o
                   << Ev("error", suiteId, 0, "", "Suite failed"),
                      Ev("finishSuite", suiteId, 0, "", "failed") >>
              /\ outcome' = "threw"
              /\ thrown' = suiteError
              /\ pc' = "done"
              /\ UNCHANGED idx
         ELSE /\ calls' = calls \o
                   << Ev("info", suiteId, 0, "", "Suite completed successfully"),
                      Ev("finishSuite", suiteId, 0, "", "default") >>
              /\ idx' = idx + 1
              /\ pc' = "loop"
              /\ UNCHANGED <<outcome, thrown>>
    /\ UNCHANGED <<inputs, suiteLocals, testLocals, running, nextId>>

-----------------------------------------------------------------------------

Next ==
    \/ RunTestSuites
    \/ LoopEnd
    \/ SkipSuite
    \/ StartSuite
    \/ InvokeSetup
    \/ SettleSetup
    \/ BeginTests
    \/ StartTest
    \/ SettleTest
    \/ EndTests
    \/ InvokeTeardown
    \/ SettleTeardown
    \/ FinishSuite

\* runs against a sink that keeps the reporting-sink contract
Spec == Init /\ [][Next]_vars

\* runs against the bundled client, whose start calls may return null
SpecClient == InitClient /\ [][Next]_vars

\* every await of the call chain resumes once the awaited procedure or sink
\* call has completed: the chain takes its next step whenever it has one
InitLive ==
    /\ logger \in BOOLEAN
    /\ enabledSuites \in SeqsUpTo(SelectableNames, MaxSelLive)
    /\ sink = "contract"
    /\ InitLocals
    /\ InitRegistry
    /\ ReporterIdle

SpecLive == InitLive /\ [][Next]_vars /\ WF_vars(Next)

-----------------------------------------------------------------------------
(* The decorators (src/src/decorators.js), applied to a class before any   *)
(* run.  A decorator application is one step; `applied` records them in    *)
(* the order in which they are made.                                       *)

\* metadata objects a caller may pass to Test and to Suite
TestMetadataValues == {"m1", "m2"}
SuiteMetadataValues == {"S1", "S2"}

\* the features listed in a suite metadata object
FeaturesOf(metadata) == IF metadata = "S1" THEN << "smoke" >> ELSE << >>

\* mutant: the last attachment wins
TestLastWins(cls, k, metadata) ==
    [cls EXCEPT !.methods[k].testMetadata = metadata]

\* Test(metadata)(target, propertyKey, descriptor) on the k-th method:
\* `if (!descriptor.value.testMetadata) descriptor.value.testMetadata = metadata`
Test(cls, k, metadata) ==
    IF cls.methods[k].testMetadata = ""
      THEN [cls EXCEPT !.methods[k].testMetadata = metadata]
      ELSE cls

\* Setup()(target, propertyKey, descriptor): descriptor.value.isSetup = true
Setup(cls, k) == [cls EXCEPT !.methods[k].isSetup = TRUE]

\* Teardown()(...): descriptor.value.isTeardown = true
Teardown(cls, k) == [cls EXCEPT !.methods[k].isTeardown = TRUE]

\* Object.defineProperty(target.prototype, '_suiteMetadata', {value,
\* writable: false, enumerable: false}) raises a TypeError when the
\* property, not configurable once defined, is defined again with another
\* value
SuiteThrows(cls, metadata) ==
    cls.suiteMetadata # "" /\ cls.suiteMetadata # metadata

\* mutant: the property is defined writable and configurable, so that a
\* later attachment replaces the metadata
SuiteRedefines(cls, metadata) ==
    [cls EXCEPT !.suiteMetadata = metadata,
                !.features = FeaturesOf(metadata)]

\* Suite(metadata)(target)
Suite(cls, metadata) ==
    IF cls.suiteMetadata = ""
      THEN [cls EXCEPT !.suiteMetadata = metadata,
                       !.features = FeaturesOf(metadata)]
      ELSE cls

\* `target.prototype._suiteMetadata = metadata`, or the same assignment on
\* an instance: the property is defined with writable: false, so the
\* assignment stores nothing
AssignSuiteMetadata(cls, metadata) == cls

\* the assignment raises a TypeError in strict code (the modules of the
\* repository are ES modules) once the property is defined; before that it
\* creates an ordinary property
AssignThrows(cls) == cls.suiteMetadata # ""

\* one decorator application
Applied(dec, k, metadata, threw) ==
    [dec |-> dec, key |-> k, metadata |-> metadata, threw |-> threw]

runVars == <<logger, sink, enabledSuites, pc, idx, suiteId, suiteError,
             setupSuccess, testIdx, hasFailedTests, firstError, testId,
             running, nextId, calls, results, outcome, thrown, reporterVars>>

ApplyTest ==
    /\ Len(applied) < MaxDecorations
    /\ \E k \in DOMAIN target.methods : \E metadata \in TestMetadataValues :
         /\ target' = Test(target, k, metadata)
         /\ applied' = Append(applied, Applied("Test", k, metadata, FALSE))
    /\ UNCHANGED runVars

ApplySetup ==
    /\ Len(applied) < MaxDecorations
    /\ \E k \in DOMAIN target.methods :
         /\ target' = Setup(target, k)
         /\ applied' = Append(applied, Applied("Setup", k, "", FALSE))
    /\ UNCHANGED runVars

ApplyTeardown ==
    /\ Len(applied) < MaxDecorations
    /\ \E k \in DOMAIN target.methods :
         /\ target' = Teardown(target, k)
         /\ applied' = Append(applied, Applied("Teardown", k, "", FALSE))
    /\ UNCHANGED runVars

ApplySuite ==
    /\ Len(applied) < MaxDecorations
    /\ \E metadata \in SuiteMetadataValues :
         /\ target' = Suite(target, metadata)
         /\ applied' = Append(applied, Applied("Suite", 0, metadata,
                                               SuiteThrows(target, metadata)))
    /\ UNCHANGED runVars

\* an assignment to the metadata property of a decorated class
ApplyAssign ==
    /\ Len(applied) < MaxDecorations
    /\ target.suiteMetadata # ""
    /\ \E metadata \in SuiteMetadataValues :
         /\ target' = AssignSuiteMetadata(target, metadata)
         /\ applied' = Append(applied, Applied("assign", 0, metadata,
                                               AssignThrows(target)))
    /\ UNCHANGED runVars

\* runSuite on an instance of the class, selected by the key "T": lines
\* 34-45 read the metadata and announce its name; the class is only read
AnnounceSuite ==
    /\ Len(applied) < MaxDecorations
    /\ target' = target
    /\ applied' = Append(applied, Applied("runSuite", 0,
                                          suiteMetadataName(target, "T"), FALSE))
    /\ UNCHANGED runVars

InitDecorators ==
    /\ logger = TRUE
    /\ sink = "contract"
    /\ enabledSuites = <<>>
    /\ InitLocals
    /\ InitRegistry
    /\ ReporterIdle

NextDecorators ==
    \/ ApplySuite
    \/ ApplyTest
    \/ ApplySetup
    \/ ApplyTeardown
    \/ ApplyAssign
    \/ AnnounceSuite

SpecDecorators == InitDecorators /\ [][NextDecorators]_vars

-----------------------------------------------------------------------------
(* The bundled client (src/src/report-portal-client.js): a reporter made   *)
(* by createReporter, the client its start() makes, and the HTTP requests  *)
(* they send.  Each operation called is one step; whether the backend      *)
(* accepts a request is drawn when the request is sent.                    *)

\* the identifier the backend answers the n-th request with
IdOf(n) == "id" \o ToString(n)

\* an HTTP request: method, path, the identifier in the path or in the
\* payload (itemUuid), and the name in the payload
Req(method, path, item, name) ==
    [method |-> method, path |-> path, item |-> item, name |-> name, type |-> ""]

\* the request that starts an item of a type under a parent ("" for none)
ItemReq(type, parentId, name) ==
    [Req("POST", "/item", parentId, name) EXCEPT !.type = type]

\* what an operation did: the value it returned ("" models null, false and
\* undefined), or that it threw, and the requests it sent
Done(ret, reqs) == [ret |-> ret, threw |-> FALSE, reqs |-> reqs]
Threw(reqs) == [ret |-> "", threw |-> TRUE, reqs |-> reqs]

\* item identifiers a caller may pass: null, or one it holds
ItemArgs == {"", "item"}

\* validate.options(options): throws when a required field is missing
validateOptionsThrows(opts) == ~opts.valid

\* mutant: the options are not validated before the launch is requested
startLaunchUnvalidated(opts, ok, fresh) ==
    IF ~opts.publishResult
      THEN Done("", << >>)
      ELSE Done(IF ok THEN fresh ELSE "", << Req("POST", "/launch", "", "launch") >>)

\* startLaunch(options): a validation error is caught and gives null; with
\* publishing disabled null; otherwise POST /launch and the id of the
\* answer, null when the request fails
startLaunch(opts, ok, fresh) ==
    IF validateOptionsThrows(opts) \/ ~opts.publishResult
      THEN Done("", << >>)
      ELSE Done(IF ok THEN fresh ELSE "", << Req("POST", "/launch", "", "launch") >>)

\* finishLaunch(launchId, options, status)
finishLaunch(id, opts, ok) ==
    IF ~opts.publishResult \/ id = ""
      THEN Done("", << >>)
      ELSE Done(IF ok THEN "true" ELSE "", << Req("PUT", "/launch/finish", id, "") >>)

\* makeRequest(method, url, data) of a client: nothing is sent when
\* publishing is disabled; ret is the id of the answer when it succeeds
makeRequest(opts, req, ok, fresh) ==
    IF ~opts.publishResult
      THEN Done("", << >>)
      ELSE Done(IF ok THEN fresh ELSE "", << req >>)

\* startItem(params) as called by startSuite and startTest: `/item` or
\* `/item/${parentId}`; the name must not be empty
startItem(opts, type, name, parentId, ok, fresh) ==
    IF name = "" \/ type = "" THEN Threw(<< >>)
    ELSE makeRequest(opts, ItemReq(type, parentId, name), ok, fresh)

\* startTest(name, description, attributes, parentId)
startTest(opts, name, parentId, ok, fresh) ==
    IF parentId = "" THEN Threw(<< >>)
    ELSE startItem(opts, "TEST", name, parentId, ok, fresh)

\* startStep(testId, name, description): `/item/${testId}` with the name in
\* the payload; both must not be empty
startStep(opts, test, name, description, ok, fresh) ==
    IF test = "" \/ name = "" THEN Threw(<< >>)
    ELSE makeRequest(opts, ItemReq("STEP", test, name), ok, fresh)

\* finishItem(id, status)
finishItem(opts, id, ok) ==
    IF id = "" THEN Threw(<< >>)
    ELSE makeRequest(opts, Req("PUT", "/item", id, ""), ok, "true")

\* log(itemId, message, level)
log(opts, itemId, ok) ==
    IF itemId = "" THEN Threw(<< >>)
    ELSE makeRequest(opts, Req("POST", "/log", itemId, ""), ok, "true")

\* json(itemId, jsonData, fileName, message): the multipart request is
\* posted with http.post itself, not through makeRequest
json(opts, itemId, ok) ==
    IF itemId = "" THEN Threw(<< >>)
    ELSE Done(IF ok THEN "true" ELSE "", << Req("POST", "/log", itemId, "json") >>)

\* attachment(itemId, fileContent, fileName, contentType, message)
attachment(opts, itemId, ok) ==
    IF itemId = "" THEN Threw(<< >>)
    ELSE makeRequest(opts, Req("POST", "/log", itemId, "file"), ok, "true")

\* getLaunchStatus() of a client made for launch id
getLaunchStatus(opts, id, ok) ==
    IF id = "" THEN Done("", << >>)
    ELSE makeRequest(opts, Req("GET", "/launch", id, ""), ok, "status")

\* getItemStatus(itemId)
getItemStatus(opts, itemId, ok) ==
    IF itemId = "" THEN Threw(<< >>)
    ELSE makeRequest(opts, Req("GET", "/item", itemId, ""), ok, "status")

\* a structure of one test with one step, the step with or without a
\* description
Structures ==
    {[name |-> "root",
      test |-> [name |-> "t",
                step |-> [name |-> "step", description |-> d]]] :
        d \in {"details", ""}}

\* createTestStructure(structure): the root suite, then for each test
\* startTest under the suite and for each step
\* `this.startStep(step.name, step.description, testId)`; an exception of
\* startStep leaves the method.  oks: whether the first, second and third
\* request is accepted; n: the number of requests sent before
createTestStructure(opts, structure, oks, n) ==
    LET suite == startItem(opts, "SUITE", structure.name, "", oks[1], IdOf(n + 1))
    IN  IF suite.ret = "" THEN Done("", suite.reqs)
        ELSE LET started == startTest(opts, structure.test.name, suite.ret,
                                      oks[2], IdOf(n + 2))
                 step == startStep(opts, structure.test.step.name,
                                   structure.test.step.description, started.ret,
                                   oks[3], IdOf(n + 3))
             IN  IF step.threw THEN Threw(suite.reqs \o started.reqs)
                 ELSE Done(suite.ret, suite.reqs \o started.reqs \o step.reqs)

\* an entry of opsLog
Op(name, done) == [op |-> name, threw |-> done.threw, ret |-> done.ret]

orchVars == <<logger, sink, enabledSuites, pc, idx, suiteId, suiteError,
              setupSuccess, testIdx, hasFailedTests, firstError, testId,
              running, nextId, calls, results, outcome, thrown, target, applied>>

\* whether the backend accepts a request; only drawn when one is sent
Accepts(sent) == IF sent THEN BOOLEAN ELSE {TRUE}

\* reporter.start(): `launchId = startLaunch(config)`, then
\* `client = createClient(launchId, config)`, which validates the options
\* and throws before the assignment
ReporterStart ==
    /\ Len(opsLog) < MaxOps
    /\ \E ok \in Accepts(reporterConfig.valid /\ reporterConfig.publishResult) :
         LET launch == startLaunch(reporterConfig, ok, IdOf(Len(requests) + 1))
         IN  /\ launchId' = launch.ret
             /\ requests' = requests \o launch.reqs
             /\ IF validateOptionsThrows(reporterConfig)
                  THEN /\ client' = client
                       /\ opsLog' = Append(opsLog, Op("start", Threw(<< >>)))
                  ELSE /\ client' = [made |-> TRUE, launchId |-> launch.ret]
                       /\ opsLog' = Append(opsLog, Op("start", Done(launch.ret, << >>)))
    /\ UNCHANGED <<orchVars, reporterConfig>>

\* reporter.finish(status): `if (launchId) finishLaunch(launchId, config, status)`
ReporterFinish ==
    /\ Len(opsLog) < MaxOps
    /\ \E ok \in Accepts(launchId # "" /\ reporterConfig.publishResult) :
         LET fin == IF launchId # "" THEN finishLaunch(launchId, reporterConfig, ok)
                                     ELSE Done("", << >>)
         IN  /\ requests' = requests \o fin.reqs
             /\ opsLog' = Append(opsLog, Op("finish", Done("", << >>)))
    /\ UNCHANGED <<orchVars, reporterConfig, launchId, client>>

\* an operation of the client that start() returned: its requests are sent
\* and its outcome recorded
ClientCall(name, done) ==
    /\ requests' = requests \o done.reqs
    /\ opsLog' = Append(opsLog, Op(name, done))
    /\ UNCHANGED <<orchVars, reporterConfig, launchId, client>>

ClientReady == client.made /\ Len(opsLog) < MaxOps

ClientStartSuite ==
    /\ ClientReady
    /\ \E ok \in Accepts(reporterConfig.publishResult) :
         ClientCall("startSuite",
                    startItem(reporterConfig, "SUITE", "suite", "", ok,
                              IdOf(Len(requests) + 1)))

ClientFinishItem ==
    /\ ClientReady
    /\ \E id \in ItemArgs : \E ok \in Accepts(id # "" /\ reporterConfig.publishResult) :
         ClientCall("finishItem", finishItem(reporterConfig, id, ok))

ClientLog ==
    /\ ClientReady
    /\ \E id \in ItemArgs : \E ok \in Accepts(id # "" /\ reporterConfig.publishResult) :
         ClientCall("log", log(reporterConfig, id, ok))

ClientJson ==
    /\ ClientReady
    /\ \E id \in ItemArgs : \E ok \in Accepts(id # "") :
         ClientCall("json", json(reporterConfig, id, ok))

ClientAttachment ==
    /\ ClientReady
    /\ \E id \in ItemArgs : \E ok \in Accepts(id # "" /\ reporterConfig.publishResult) :
         ClientCall("attachment", attachment(reporterConfig, id, ok))

ClientGetLaunchStatus ==
    /\ ClientReady
    /\ \E ok \in Accepts(client.launchId # "" /\ reporterConfig.publishResult) :
         ClientCall("getLaunchStatus",
                    getLaunchStatus(reporterConfig, client.launchId, ok))

ClientGetItemStatus ==
    /\ ClientReady
    /\ \E id \in ItemArgs : \E ok \in Accepts(id # "" /\ reporterConfig.publishResult) :
         ClientCall("getItemStatus", getItemStatus(reporterConfig, id, ok))

ClientCreateTestStructure ==
    /\ ClientReady
    /\ \E structure \in Structures :
         \E oks \in [1..3 -> Accepts(reporterConfig.publishResult)] :
            /\ (~oks[1] => (oks[2] /\ oks[3]))
            /\ ClientCall("createTestStructure",
                          createTestStructure(reporterConfig, structure, oks,
                                              Len(requests)))

InitReporterSpec ==
    /\ logger = TRUE
    /\ sink = "client"
    /\ enabledSuites = <<>>
    /\ InitLocals
    /\ InitRegistry
    /\ InitReporter(ReporterConfigs)

NextReporter ==
    \/ ReporterStart
    \/ ReporterFinish
    \/ ClientStartSuite
    \/ ClientFinishItem
    \/ ClientLog
    \/ ClientJson
    \/ ClientAttachment
    \/ ClientGetLaunchStatus
    \/ ClientGetItemStatus
    \/ ClientCreateTestStructure

SpecReporter == InitReporterSpec /\ [][NextReporter]_vars

-----------------------------------------------------------------------------
(* Reading the history *)

\* the positions of enabledSuites, one per loop iteration
Runs == 1..Len(enabledSuites)

\* the suite the r-th selected name stands for
SuiteOfRun(r) == testSuites[enabledSuites[r]]

\* positions in `calls` of the sink calls `op` made for the r-th selection
SinkCalls(r, op) ==
    {i \in DOMAIN calls : calls[i].run = r /\ calls[i].op = op}

\* positions in `calls` of the invocations made in a role for the r-th selection
Invocations(r, role) ==
    {i \in DOMAIN calls : /\ calls[i].run = r
                          /\ calls[i].op = "call"
                          /\ calls[i].role = role}

\* positions in `calls` where a procedure of the r-th selection threw
Throws(r) ==
    {i \in DOMAIN calls : /\ calls[i].run = r
                          /\ calls[i].op = "settle"
                          /\ calls[i].arg # "ok"}

\* the setup procedure of the r-th selection threw
SetupThrew(r) == \E i \in Throws(r) : calls[i].role = "setup"

\* the runSuite invocation for the r-th selection is over
SuiteOver(r) == \E i \in DOMAIN results : results[i].run = r

-----------------------------------------------------------------------------
(* C1: for every finished runSuite invocation on a suite that has a        *)
(* teardown procedure, runSuiteTeardown has invoked that procedure exactly *)
(* once, whatever setup and the tests did; and it is never invoked twice.  *)
C1_TeardownExactlyOnce ==
    \A r \in Runs :
        LET t == Invocations(r, "teardown")
        IN  /\ Cardinality(t) <= 1
            /\ (SuiteOver(r) /\ teardownMethod(SuiteOfRun(r)) # 0) =>
                  /\ Cardinality(t) = 1
                  /\ \A i \in t : calls[i].name =
                        SuiteOfRun(r).methods[teardownMethod(SuiteOfRun(r))].name

\* a suite invocation is over in which setup threw and teardown was invoked
C1_Witness ==
    \E r \in Runs : /\ SuiteOver(r)
                    /\ SetupThrew(r)
                    /\ Invocations(r, "teardown") # {}

-----------------------------------------------------------------------------
(* C2: in a finished suite invocation whose setup procedure threw, there   *)
(* is no startTest call and no test invocation, teardown (if the suite has *)
(* one) was invoked exactly once, and finishSuite was called with status   *)
(* 'failed'.                                                               *)
C2_SetupFailureFailsSuite ==
    \A r \in Runs :
        (SuiteOver(r) /\ SetupThrew(r)) =>
            /\ SinkCalls(r, "startTest") = {}
            /\ Invocations(r, "test") = {}
            /\ teardownMethod(SuiteOfRun(r)) # 0 =>
                  Cardinality(Invocations(r, "teardown")) = 1
            /\ Cardinality(SinkCalls(r, "finishSuite")) = 1
            /\ \A i \in SinkCalls(r, "finishSuite") : calls[i].arg = "failed"

-----------------------------------------------------------------------------
\* the events of the r-th selection that satisfy Sel, in order
EventsOfRun(r, Sel(_)) ==
    SelectSeq(calls, LAMBDA e : e.run = r /\ Sel(e))

\* the names of the methods invoked as tests for the r-th selection, in order
InvokedTests(r) ==
    LET es == EventsOfRun(r, LAMBDA e : e.op = "call" /\ e.role = "test")
    IN  [k \in 1..Len(es) |-> es[k].name]

\* the names of the methods carrying test metadata, in discovery order
DiscoveredTests(suite) ==
    LET ms == testMethods(suite) IN [k \in 1..Len(ms) |-> ms[k].name]

\* the test invoked at position i of `calls` was reported finished exactly
\* once, with the status that its own outcome calls for
ReportedTruly(i) ==
    LET fin == {j \in DOMAIN calls : calls[j].op = "finishTest"
                                     /\ calls[j].id = calls[i].id}
        out == {j \in DOMAIN calls : /\ calls[j].op = "settle"
                                     /\ calls[j].role = "test"
                                     /\ calls[j].id = calls[i].id}
    IN  /\ Cardinality(fin) = 1
        /\ Cardinality(out) = 1
        /\ \A j \in fin : \A k \in out :
              calls[j].arg = (IF calls[k].arg = "ok" THEN "passed" ELSE "failed")

(* C3: in a finished suite invocation whose setup did not throw, every     *)
(* discovered test procedure was invoked, in discovery order, whichever    *)
(* tests threw, and each finishTest status reflects that test's outcome.   *)
C3_FailingTestDoesNotStopOthers ==
    \A r \in Runs :
        (SuiteOver(r) /\ ~SetupThrew(r)) =>
            /\ InvokedTests(r) = DiscoveredTests(SuiteOfRun(r))
            /\ \A i \in Invocations(r, "test") : ReportedTruly(i)

-----------------------------------------------------------------------------
\* the suite has no setup and no teardown procedure
NoHooks(suite) == setupMethod(suite) = 0 /\ teardownMethod(suite) = 0

(* C4: in a finished suite invocation whose setup did not throw, every     *)
(* procedure carrying test metadata got exactly one startTest and exactly  *)
(* one finishTest, 'passed' if it returned and 'failed' if it threw; and a *)
(* suite without hooks whose tests all returned is reported succeeded and  *)
(* does not throw.                                                         *)
C4_OneOutcomePerTest ==
    \A r \in Runs :
        (SuiteOver(r) /\ ~SetupThrew(r)) =>
            /\ \A k \in DOMAIN DiscoveredTests(SuiteOfRun(r)) :
                 LET st == {i \in SinkCalls(r, "startTest") :
                               calls[i].arg = DiscoveredTests(SuiteOfRun(r))[k]}
                     iv == {i \in Invocations(r, "test") :
                               calls[i].name = DiscoveredTests(SuiteOfRun(r))[k]}
                 IN  /\ Cardinality(st) = 1
                     /\ Cardinality(iv) = 1
                     /\ \A i \in iv : ReportedTruly(i)
            /\ (NoHooks(SuiteOfRun(r)) /\ Throws(r) = {}) =>
                 /\ \A i \in SinkCalls(r, "finishSuite") : calls[i].arg = "default"
                 /\ \A i \in DOMAIN results : results[i].run = r => ~results[i].threw

-----------------------------------------------------------------------------
(* C5: in a finished suite invocation, finishSuite was called with status  *)
(* 'failed' if and only if setup, a test or teardown threw (whatever value *)
(* was thrown); otherwise it was called with the default status.           *)
C5_FailedIffSomethingThrew ==
    \A r \in Runs :
        SuiteOver(r) =>
            /\ Cardinality(SinkCalls(r, "finishSuite")) = 1
            /\ \A i \in SinkCalls(r, "finishSuite") :
                 /\ calls[i].arg \in {"failed", "default"}
                 /\ calls[i].arg = "failed" <=> Throws(r) # {}

-----------------------------------------------------------------------------
\* the value thrown at the earliest throw of the r-th selection
FirstThrown(r) ==
    LET i == CHOOSE i \in Throws(r) : \A j \in Throws(r) : i <= j
    IN  ThrownBy(calls[i].name, calls[i].arg)

(* C6: the error a runSuite invocation throws is the first value thrown by *)
(* its procedures in the order setup, tests, teardown; a later error never *)
(* replaces an earlier one.                                                *)
C6_FirstErrorRethrown ==
    \A i \in DOMAIN results :
        results[i].threw =>
            /\ Throws(results[i].run) # {}
            /\ results[i].value = FirstThrown(results[i].run)

-----------------------------------------------------------------------------
(* C7: once runSuite has thrown for a selected suite, no sink call and no  *)
(* procedure of a later selection occurs, no later runSuite is invoked,    *)
(* and runTestSuites has thrown the same error.                            *)
C7_FailFastAcrossSuites ==
    \A i \in DOMAIN results :
        results[i].threw =>
            /\ \A j \in DOMAIN calls : calls[j].run <= results[i].run
            /\ i = Len(results)
            /\ outcome = "threw"
            /\ thrown = results[i].value

\* runSuite threw for a selection that is followed by the name of a suite
C7_Witness ==
    \E i \in DOMAIN results :
        /\ results[i].threw
        /\ \E r \in Runs : r > results[i].run /\ ~NoSuite(enabledSuites[r])

-----------------------------------------------------------------------------
(* C8: a selected name without a suite gets no sink call and no runSuite   *)
(* invocation and raises no error: when runTestSuites has returned, every  *)
(* selected name that has a suite was started, and when it has thrown      *)
(* (with a logger), the error came from a selection that has a suite and   *)
(* every earlier selection that has a suite was started.                   *)
C8_MissingSuiteSkipped ==
    /\ \A r \in Runs :
         NoSuite(enabledSuites[r]) =>
            /\ \A j \in DOMAIN calls : calls[j].run # r
            /\ ~SuiteOver(r)
    /\ (pc = "done" /\ outcome = "returned") =>
         \A r \in Runs :
            ~NoSuite(enabledSuites[r]) => SinkCalls(r, "startSuite") # {}
    /\ (outcome = "threw" /\ logger) =>
         /\ results # <<>>
         /\ ~NoSuite(enabledSuites[results[Len(results)].run])
         /\ \A r \in 1..results[Len(results)].run :
              ~NoSuite(enabledSuites[r]) => SinkCalls(r, "startSuite") # {}

\* runTestSuites returned after skipping a name and running a later one
C8_Witness ==
    /\ pc = "done"
    /\ outcome = "returned"
    /\ \E r1, r2 \in Runs : /\ r1 < r2
                            /\ NoSuite(enabledSuites[r1])
                            /\ SinkCalls(r2, "startSuite") # {}

-----------------------------------------------------------------------------
(* C9: without a logger, runTestSuites makes no sink call, invokes no      *)
(* procedure and no runSuite, and ends by throwing the configuration       *)
(* error, whatever the selection is.                                       *)
C9_NoLoggerNoCalls ==
    ~logger =>
        /\ calls = <<>>
        /\ results = <<>>
        /\ pc \in {"start", "done"}
        /\ pc = "done" => (outcome = "threw" /\ thrown = ConfigErrorV)

\* the configuration error was thrown although a suite was selected
C9_Witness ==
    /\ ~logger
    /\ pc = "done"
    /\ \E r \in Runs : ~NoSuite(enabledSuites[r])

-----------------------------------------------------------------------------
\* the startSuite calls, in order
StartSuiteCalls == SelectSeq(calls, LAMBDA e : e.op = "startSuite")

\* the selected names a sequence of startSuite calls was made for
NamesOf(starts) == [k \in 1..Len(starts) |-> starts[k].arg]

\* the selected names the startSuite calls were made for, in order
StartedNames == NamesOf(StartSuiteCalls)

\* the names of a selection that have a suite, in the selection's order
WithSuite(selection) == SelectSeq(selection, LAMBDA n : ~NoSuite(n))

\* s is an initial part of t
IsPrefix(s, t) == Len(s) <= Len(t) /\ SubSeq(t, 1, Len(s)) = s

\* the selection up to and including the first suite that threw
SelectionRun ==
    IF results # <<>> /\ results[Len(results)].threw
      THEN SubSeq(enabledSuites, 1, results[Len(results)].run)
      ELSE enabledSuites

(* C10: the startSuite calls are made for the selected names that have a   *)
(* suite, in the caller's order, once per occurrence of the name: at any   *)
(* time they are an initial part of that list, each announces the name of  *)
(* the suite selected, and when runTestSuites is over (with a logger) they *)
(* are that list, cut off after the first suite that threw.                *)
C10_StartedInSelectionOrder ==
    LET starts == StartSuiteCalls
        names == NamesOf(starts)
    IN  /\ IsPrefix(names, WithSuite(enabledSuites))
        /\ \A k \in DOMAIN starts :
             starts[k].name = suiteMetadataName(testSuites[names[k]], names[k])
        /\ (pc = "done" /\ logger) => names = WithSuite(SelectionRun)

\* a name selected twice was started twice
C10_Witness ==
    /\ pc = "done"
    /\ Len(StartedNames) = 2
    /\ StartedNames[1] = StartedNames[2]


-----------------------------------------------------------------------------
\* the finish calls `op` that close the item opened at position i of `calls`:
\* a suite is closed by the finishSuite of its own invocation, a test by the
\* finishTest that carries the identifier its startTest returned
ClosingCalls(i, op) ==
    {j \in DOMAIN calls : /\ j > i
                          /\ calls[j].op = op
                          /\ calls[j].run = calls[i].run
                          /\ calls[j].id = calls[i].id}

(* C11: no item is ever closed twice, and once the batch is over every     *)
(* startSuite call has exactly one finishSuite call for that suite and     *)
(* every startTest call exactly one finishTest call for that test,         *)
(* whichever procedures threw.                                             *)
C11_EveryItemClosed ==
    \A i \in DOMAIN calls :
        /\ calls[i].op = "startSuite" =>
              /\ Cardinality(ClosingCalls(i, "finishSuite")) <= 1
              /\ pc = "done" => Cardinality(ClosingCalls(i, "finishSuite")) = 1
        /\ calls[i].op = "startTest" =>
              /\ Cardinality(ClosingCalls(i, "finishTest")) <= 1
              /\ pc = "done" => Cardinality(ClosingCalls(i, "finishTest")) = 1

-----------------------------------------------------------------------------
\* the value the setup procedure of the r-th selection returned: "" when
\* the suite has no setup procedure, or it returned nothing, or it threw
SetupResult(r) ==
    LET out == {i \in DOMAIN calls : /\ calls[i].run = r
                                     /\ calls[i].op = "settle"
                                     /\ calls[i].role = "setup"}
    IN  IF out = {} THEN "" ELSE calls[CHOOSE i \in out : TRUE].value

\* positions of the test and teardown invocations of the r-th selection
LaterInvocations(r) == Invocations(r, "test") \cup Invocations(r, "teardown")

-----------------------------------------------------------------------------
\* the method of the suite of the r-th selection that is named n is flagged
\* as setup or as teardown
HookFlagged(r, n) ==
    \E k \in DOMAIN SuiteOfRun(r).methods :
        LET m == SuiteOfRun(r).methods[k]
        IN  m.name = n /\ (m.isSetup \/ m.isTeardown)

(* C13: no startTest call is made for, and no invocation in the test role  *)
(* is made of, a procedure flagged as setup or teardown, also when it      *)
(* carries test metadata.                                                  *)
C13_HooksNeverRunAsTests ==
    \A i \in DOMAIN calls :
        (calls[i].op = "startTest" \/ (calls[i].op = "call" /\ calls[i].role = "test"))
            => ~HookFlagged(calls[i].run, IF calls[i].op = "startTest"
                                            THEN calls[i].arg ELSE calls[i].name)

-----------------------------------------------------------------------------
\* positions in `applied` of the Test attachments made to the k-th method
TestAttachments(k) ==
    {i \in DOMAIN applied : applied[i].dec = "Test" /\ applied[i].key = k}

\* the metadata the test phase reads for the method named n of a class, ""
\* when the test phase does not discover the method
MetadataRead(cls, n) ==
    LET hits == {j \in DOMAIN testMethods(cls) : testMethods(cls)[j].name = n}
    IN  IF hits = {} THEN ""
        ELSE testMethods(cls)[CHOOSE j \in hits : TRUE].testMetadata

(* C14: after any sequence of Test(metadata) attachments to one procedure, *)
(* the metadata the test phase reads for it is that of the first           *)
(* attachment, whatever metadata the later attachments carried.            *)
C14_FirstTestMetadataWins ==
    \A k \in DOMAIN target.methods :
        LET att == TestAttachments(k)
        IN  IF att = {}
              THEN MetadataRead(target, target.methods[k].name) = ""
              ELSE MetadataRead(target, target.methods[k].name) =
                     applied[CHOOSE i \in att : \A j \in att : i <= j].metadata

\* a procedure has had two attachments with different metadata
C14_Witness ==
    \E k \in DOMAIN target.methods : \E i, j \in TestAttachments(k) :
        i < j /\ applied[i].metadata # applied[j].metadata

-----------------------------------------------------------------------------
\* the suite identifier startSuite returned for the r-th selection
SuiteIdOf(r) ==
    LET st == SinkCalls(r, "startSuite")
    IN  IF st = {} THEN 0 ELSE calls[CHOOSE i \in st : TRUE].id

(* C15: when the setup procedure of a finished suite invocation threw a    *)
(* value e, an error call was made against the suite identifier after the  *)
(* throw, and runSuite threw that same value e to its caller, whatever the *)
(* value.                                                                  *)
C15_SetupFailureRethrown ==
    \A r \in Runs : \A i \in Throws(r) :
        (SuiteOver(r) /\ calls[i].role = "setup") =>
            /\ \E j \in SinkCalls(r, "error") :
                  j > i /\ calls[j].id = SuiteIdOf(r)
            /\ \E k \in DOMAIN results :
                  /\ results[k].run = r
                  /\ results[k].threw
                  /\ results[k].value = ThrownBy(calls[i].name, calls[i].arg)

-----------------------------------------------------------------------------
\* the invocation at position i of `calls` has completed, and the
\* orchestrator made no call between invoking the procedure and its
\* completion
SettledNext(i) ==
    /\ i < Len(calls)
    /\ calls[i + 1].op = "settle"
    /\ calls[i + 1].run = calls[i].run
    /\ calls[i + 1].role = calls[i].role
    /\ calls[i + 1].name = calls[i].name

\* the start and finish calls of the history, in order
StartsAndFinishes(startOp, finishOp) ==
    SelectSeq(calls, LAMBDA e : e.op = startOp \/ e.op = finishOp)

(* C16: at most one invoked procedure is pending at any time; a step       *)
(* (startSuite, startTest, an invocation of setup, a test or teardown) is  *)
(* started only when every procedure invoked before it has completed; no   *)
(* startTest occurs between a test's startTest and its finishTest; and a   *)
(* suite's finishSuite precedes the next suite's startSuite.               *)
C16_StepsNeverOverlap ==
    /\ Cardinality(running) <= 1
    /\ \A i \in DOMAIN calls :
          IF calls[i].op = "call"
            THEN (i = Len(calls) /\ running = {calls[i].name}) \/ SettledNext(i)
            ELSE i = Len(calls) => running = {}
    /\ \A tests \in {StartsAndFinishes("startTest", "finishTest")} :
          \A k \in DOMAIN tests :
              tests[k].op = "finishTest" =>
                  /\ k > 1
                  /\ tests[k - 1].op = "startTest"
                  /\ tests[k - 1].id = tests[k].id
    /\ \A suites \in {StartsAndFinishes("startSuite", "finishSuite")} :
          \A k \in DOMAIN suites :
              (k > 1 /\ suites[k].op = "startSuite") =>
                  /\ suites[k - 1].op = "finishSuite"
                  /\ suites[k - 1].run < suites[k].run

\* a second test was started after the first one was finished, in the
\* second suite of a batch
C16_Witness ==
    \E i, j \in DOMAIN calls :
        /\ i < j
        /\ calls[i].op = "startTest" /\ calls[j].op = "startTest"
        /\ calls[i].run = 2 /\ calls[j].run = 2
        /\ \E k \in DOMAIN calls : /\ i < k /\ k < j
                                   /\ calls[k].op = "settle"
                                   /\ calls[k].role = "test"

-----------------------------------------------------------------------------
\* the phase of a suite invocation that an entry of `calls` belongs to; 0
\* for the log calls
Phase(e) ==
    CASE e.op = "startSuite" -> 1
      [] e.op \in {"call", "settle"} /\ e.role = "setup" -> 2
      [] e.op \in {"startTest", "finishTest"} -> 3
      [] e.op \in {"call", "settle"} /\ e.role = "test" -> 3
      [] e.op \in {"call", "settle"} /\ e.role = "teardown" -> 4
      [] e.op = "finishSuite" -> 5
      [] OTHER -> 0

\* the lifecycle calls and procedure events of the history, in order
Lifecycle == SelectSeq(calls, LAMBDA e : Phase(e) # 0)

\* the phases follow one another in the order startSuite, setup, tests,
\* teardown, finishSuite, one suite invocation after the other; startSuite
\* and finishSuite occur once; the test phase is not entered when setup
\* threw; finishSuite is the last call of its invocation
PhasesInOrder ==
    \A ev \in {Lifecycle} :
        /\ \A k \in 1..(Len(ev) - 1) :
              \/ ev[k].run < ev[k + 1].run /\ Phase(ev[k + 1]) = 1
              \/ /\ ev[k].run = ev[k + 1].run
                 /\ Phase(ev[k]) <= Phase(ev[k + 1])
                 /\ Phase(ev[k + 1]) # 1
                 /\ Phase(ev[k]) # 5
        /\ Len(ev) > 0 => Phase(ev[1]) = 1
        /\ \A r \in Runs :
              /\ SetupThrew(r) => \A k \in DOMAIN ev :
                                     ev[k].run = r => Phase(ev[k]) # 3
              /\ \A i \in SinkCalls(r, "finishSuite") :
                     \A j \in DOMAIN calls : j > i => calls[j].run # r

\* a suite invocation has called startSuite and not yet finishSuite
SuiteOpen ==
    \E r \in Runs :
        /\ \E i \in DOMAIN calls : calls[i].run = r /\ calls[i].op = "startSuite"
        /\ \A i \in DOMAIN calls : ~(calls[i].run = r /\ calls[i].op = "finishSuite")

(* C17: every suite invocation goes through its phases in the order        *)
(* startSuite, setup, tests (only when setup did not throw), teardown,     *)
(* finishSuite; when every invoked procedure and sink call completes, an   *)
(* invocation that called startSuite reaches finishSuite, also after a     *)
(* failed setup; and nothing of that invocation follows its finishSuite.   *)
C17_PhasesInOrderToFinish ==
    /\ []PhasesInOrder
    /\ SuiteOpen ~> ~SuiteOpen

\* a suite invocation whose setup threw has gone through teardown and has
\* called finishSuite
C17_Witness ==
    \E r \in Runs :
        /\ SetupThrew(r)
        /\ Invocations(r, "teardown") # {}
        /\ SinkCalls(r, "finishSuite") # {}

-----------------------------------------------------------------------------
\* the log calls made about a test rather than about the suite
TestLevel(e) == e.arg \in {"Starting test", "Test completed", "Test failed"}

\* the suite identifiers, by selection
SuiteIds == [r \in Runs |-> SuiteIdOf(r)]

\* the pairs <<identifier, selection>> such that a call or invocation made
\* for the selection carries the identifier, as its id or as its parent; no
\* identifier is used for two selections when there are as many pairs as
\* identifiers
IdUses ==
    {<<calls[i].id, calls[i].run>> : i \in {j \in DOMAIN calls : calls[j].id # 0}} \cup
    {<<calls[i].parent, calls[i].run>> : i \in {j \in DOMAIN calls : calls[j].parent # 0}}

(* C18: in every suite invocation each startTest call passes as parent the *)
(* identifier that invocation's startSuite returned, every log call about  *)
(* the suite and the finishSuite call carry that identifier, and no call   *)
(* made for another suite carries an identifier returned for this one.     *)
C18_SuiteIdScopesItsCalls ==
    /\ \A sid \in {SuiteIds} : \A i \in DOMAIN calls :
          LET e == calls[i]
          IN  /\ e.op = "startTest" => e.parent = sid[e.run]
              /\ e.op = "finishSuite" => e.id = sid[e.run]
              /\ (e.op \in {"info", "success", "error"} /\ ~TestLevel(e))
                    => e.id = sid[e.run]
    /\ \A uses \in {IdUses} :
          Cardinality({u[1] : u \in uses}) = Cardinality(uses)

\* two suites were started and the second one started its second test
C18_Witness ==
    /\ SinkCalls(1, "startTest") # {}
    /\ Cardinality(SinkCalls(2, "startTest")) >= 2
    /\ SuiteIdOf(1) # SuiteIdOf(2)

-----------------------------------------------------------------------------
\* the startTest calls and the invocations of the history, in order
StartTestsAndInvocations ==
    SelectSeq(calls, LAMBDA e : e.op = "startTest" \/ e.op = "call")

\* what each invoked procedure sees as config.testId: setup and teardown
\* the suite identifier, a test the identifier its own startTest returned,
\* the last one made before it; and the identifier of a test is seen by no
\* later invocation
CurrentItemSeen ==
    \A sid \in {SuiteIds} : \A ev \in {StartTestsAndInvocations} :
        \A k \in DOMAIN ev :
            ev[k].op = "call" =>
                /\ ev[k].role \in {"setup", "teardown"} => ev[k].id = sid[ev[k].run]
                /\ ev[k].role = "test" =>
                      /\ k > 1
                      /\ ev[k - 1].op = "startTest"
                      /\ ev[k - 1].run = ev[k].run
                      /\ ev[k - 1].id = ev[k].id
                      /\ ev[k - 1].arg = ev[k].name
                /\ \A j \in 1..(k - 1) :
                      (ev[j].op = "startTest" /\ ev[j].id = ev[k].id)
                          => (ev[k].role = "test" /\ j = k - 1)

(* C19: no step of the orchestrator changes the configuration the caller   *)
(* supplied; setup and teardown are handed the suite identifier as current *)
(* item and each test the identifier of its own startTest; and a test's    *)
(* identifier is never handed to a later test, to teardown or to a         *)
(* procedure of a later suite.                                             *)
C19_ConfigExtendedNotModified ==
    /\ [][UNCHANGED <<logger, enabledSuites>>]_vars
    /\ []CurrentItemSeen

\* in the first suite a test and then the teardown were invoked, and the
\* setup of a second suite was invoked after them
C19_Witness ==
    /\ Invocations(1, "test") # {}
    /\ Invocations(1, "teardown") # {}
    /\ Invocations(2, "setup") # {}

-----------------------------------------------------------------------------
\* the names of the methods of a suite flagged as setup (role "setup") or
\* as teardown (role "teardown"), in declaration order
FlaggedNames(suite, role) ==
    LET ms == SelectSeq(suite.methods,
                        LAMBDA m : IF role = "setup" THEN m.isSetup ELSE m.isTeardown)
    IN  [k \in DOMAIN ms |-> ms[k].name]

(* C21: every invocation made in the setup (teardown) role is of the first *)
(* setup-flagged (teardown-flagged) method in declaration order, at most   *)
(* one such invocation is made per suite invocation and exactly one once   *)
(* the suite invocation is over, also when several methods carry the flag. *)
C21_FirstFlaggedHookOnly ==
    \A r \in {q \in Runs : enabledSuites[q] \in DOMAIN testSuites} :
      \A role \in {"setup", "teardown"} :
        \A flagged \in {FlaggedNames(SuiteOfRun(r), role)} :
            \A inv \in {Invocations(r, role)} :
                /\ Cardinality(inv) <= 1
                /\ \A i \in inv : flagged # << >> /\ calls[i].name = flagged[1]
                /\ (SuiteOver(r) /\ flagged # << >>) => Cardinality(inv) = 1

\* the suite with two setup and two teardown methods was run twice to the
\* end
C21_Witness ==
    /\ Len(enabledSuites) = 2
    /\ \A r \in Runs : /\ enabledSuites[r] \in DOMAIN testSuites
                       /\ Len(FlaggedNames(SuiteOfRun(r), "setup")) = 2
                       /\ Len(FlaggedNames(SuiteOfRun(r), "teardown")) = 2
                       /\ SuiteOver(r)

-----------------------------------------------------------------------------
\* positions in `applied` of the applications of a decorator or operation
Applications(dec) == {i \in DOMAIN applied : applied[i].dec = dec}

\* the metadata of the first Suite attachment made to the class
FirstSuiteMetadata ==
    applied[CHOOSE i \in Applications("Suite") :
                \A j \in Applications("Suite") : i <= j].metadata

(* C22: once Suite(metadata) has been applied to a class, the class keeps  *)
(* that metadata and its features, and every later runSuite announces that *)
(* metadata's name, whatever Suite attachments, assignments to the         *)
(* metadata property and runs were made in between.                        *)
C22_SuiteMetadataImmutable ==
    Applications("Suite") # {} =>
        /\ target.suiteMetadata = FirstSuiteMetadata
        /\ suiteMetadataFeatures(target) = FeaturesOf(FirstSuiteMetadata)
        /\ \A i \in Applications("runSuite") :
              (\E j \in Applications("Suite") : j < i)
                  => applied[i].metadata = FirstSuiteMetadata

\* a class was given suite metadata, then another Suite attachment or an
\* assignment with other metadata was made, then the suite was run
C22_Witness ==
    \E i \in Applications("runSuite") :
        \E j \in Applications("Suite") \cup Applications("assign") :
            /\ j < i
            /\ applied[j].metadata # FirstSuiteMetadata

-----------------------------------------------------------------------------
(* C23: no application of Suite, Test, Setup or Teardown ends in an error, *)
(* in any sequence of applications, repeated ones included.                *)
C23_DecoratorsNeverThrow ==
    \A i \in DOMAIN applied :
        applied[i].dec \in {"Suite", "Test", "Setup", "Teardown"}
            => ~applied[i].threw

-----------------------------------------------------------------------------
\* a client operation has been called
ClientCalled == \E i \in DOMAIN opsLog : opsLog[i].op \notin {"start", "finish"}

(* C24: with publishResult disabled no request is ever sent to the         *)
(* backend, whatever reporter and client operations are called.            *)
C24_NothingSentWhenDisabled ==
    ~reporterConfig.publishResult => requests = << >>

-----------------------------------------------------------------------------
\* the selections whose startSuite call returned a null identifier
NullSuiteRuns ==
    {r \in Runs : /\ enabledSuites[r] \in DOMAIN testSuites
                  /\ SinkCalls(r, "startSuite") # {}
                  /\ SuiteIdOf(r) = 0}

(* C25: when startSuite returned a null identifier for a selected suite,   *)
(* the finished runSuite invocation has still invoked the suite's setup    *)
(* and teardown procedures and, when no procedure threw, each of its       *)
(* tests, and it threw nothing but what a procedure of the suite threw.    *)
C25_NullSuiteIdStillRuns ==
    \A r \in NullSuiteRuns :
        SuiteOver(r) =>
            /\ setupMethod(SuiteOfRun(r)) # 0 => Invocations(r, "setup") # {}
            /\ teardownMethod(SuiteOfRun(r)) # 0 => Invocations(r, "teardown") # {}
            /\ Throws(r) = {} => InvokedTests(r) = DiscoveredTests(SuiteOfRun(r))
            /\ \A i \in DOMAIN results :
                  (results[i].run = r /\ results[i].threw) =>
                      \E j \in Throws(r) : TRUE

-----------------------------------------------------------------------------
\* the requests sent before the i-th that started an item of a type
Started(i, type) == {j \in 1..(i - 1) : requests[j].type = type}

(* C26: every request that starts a test names as parent the identifier    *)
(* the backend gave a suite started before, and every request that starts  *)
(* a step names as parent the identifier given to a test started before    *)
(* and carries the step's own name.                                        *)
C26_StructureNested ==
    \A i \in DOMAIN requests :
        /\ requests[i].type = "TEST" =>
              \E j \in Started(i, "SUITE") : requests[i].item = IdOf(j)
        /\ requests[i].type = "STEP" =>
              /\ \E j \in Started(i, "TEST") : requests[i].item = IdOf(j)
              /\ \E structure \in Structures :
                    requests[i].name = structure.test.step.name

-----------------------------------------------------------------------------
\* positions in opsLog of the start() calls that returned normally
StartsReturned == {i \in DOMAIN opsLog : opsLog[i].op = "start" /\ ~opsLog[i].threw}

\* positions in opsLog of the start() calls that threw
StartsThrown == {i \in DOMAIN opsLog : opsLog[i].op = "start" /\ opsLog[i].threw}

(* C27: getClient() returns null exactly as long as no start() call has    *)
(* returned normally, and afterwards the client made for the launch        *)
(* identifier of the last start(); after a start() call that threw,        *)
(* getClient() and getLaunchId() are null.                                 *)
C27_ClientOnlyAfterStart ==
    /\ client = NoClient <=> StartsReturned = {}
    /\ StartsReturned # {} => client = [made |-> TRUE, launchId |-> launchId]
    /\ StartsThrown # {} => client = NoClient /\ launchId = ""

C27_Witness ==
    /\ StartsThrown # {}
    /\ \E i \in DOMAIN opsLog : opsLog[i].op = "finish"
    /\ reporterConfig.publishResult

-----------------------------------------------------------------------------
\* positions in `requests` of the finish-launch requests for a launch
FinishLaunchRequests(id) ==
    {i \in DOMAIN requests : /\ requests[i].method = "PUT"
                             /\ requests[i].path = "/launch/finish"
                             /\ requests[i].item = id}

\* the launch identifiers the backend gave to the start-launch requests
\* sent before the i-th request
LaunchesStarted(i) ==
    {IdOf(j) : j \in {k \in 1..(i - 1) : requests[k].path = "/launch"
                                         /\ requests[k].method = "POST"}}

(* C28: every finish-launch request names a launch identifier obtained by  *)
(* an earlier start(), and no launch gets more than one finish-launch      *)
(* request.                                                                *)
C28_OneFinishPerLaunch ==
    \A i \in DOMAIN requests :
        (requests[i].method = "PUT" /\ requests[i].path = "/launch/finish") =>
            /\ requests[i].item \in LaunchesStarted(i)
            /\ FinishLaunchRequests(requests[i].item) = {i}

=============================================================================
